---------------------------- MODULE Spec2Model ----------------------------
(***************************************************************************)
(* Supply-chain risk agent: the relationship graph (graph_ops.py), the     *)
(* three semantic indexes (vector_ops.py) and the tools that the agent     *)
(* exposes over them (agent.py).                                           *)
(*                                                                         *)
(* A Python str is a sequence of one-character strings; the constant text  *)
(* of an f-string is kept as one element of the sequence, so that          *)
(* formatting, lower() and "contains" are computed and not assumed.        *)
(* A float field is a small natural number.                                *)
(***************************************************************************)
EXTENDS Integers, Sequences, FiniteSets, TLC

VARIABLES
    nodes,      \* graph_db.graph: the DiGraph's nodes, in insertion order
    edges,      \* graph_db.graph: its edges [src, dst, edge_type], in insertion order
    locIdx,     \* location_vector_db.collection: entries in insertion order
    supIdx,     \* supplier_vector_db.collection
    prodIdx,    \* product_vector_db.collection
    last,       \* what the most recent call did and returned
    catalog,    \* the entities the calls of this run are made with
    pc,         \* agent.py, module level: the statement that runs next
    generated,  \* graph_db.locations, graph_db.suppliers, graph_db.products
    memo,       \* the first exploration made since the build, for comparison
    run         \* main.py: the agent.invoke under way

vars == <<nodes, edges, locIdx, supIdx, prodIdx, last, catalog, pc, generated, memo, run>>

\* what the calls of the graph's and the stores' methods leave alone
program == <<pc, generated, memo, run>>

\* no agent.invoke is under way
NoRun ==
    [node |-> "none", step |-> 0, messages |-> <<>>, sent |-> <<>>,
     outcome |-> "none", exit |-> 0]

----------------------------------------------------------------------------
(* Bounds of the model *)

MaxBatch == 2

----------------------------------------------------------------------------
(* Strings *)

Range(s) == {s[i] : i \in 1..Len(s)}

\* str.lower() of one character, over the letters the model uses
LowerChar(c) ==
    CASE c = "P" -> "p"
      [] c = "A" -> "a"
      [] c = "W" -> "w"
      [] c = "U" -> "u"
      [] c = "C" -> "c"
      [] c = "D" -> "d"
      [] c = "K" -> "k"
      [] c = "B" -> "b"
      [] OTHER -> c

\* str.lower()
Lower(s) == [i \in 1..Len(s) |-> LowerChar(s[i])]

\* part in whole
Contains(whole, part) ==
    \E i \in 0..(Len(whole) - Len(part)) :
        SubSeq(whole, i + 1, i + Len(part)) = part

\* "\n".join(strs)
RECURSIVE JoinLines(_)
JoinLines(strs) ==
    IF strs = <<>> THEN <<>>
    ELSE IF Len(strs) = 1 THEN strs[1]
    ELSE strs[1] \o <<"\n">> \o JoinLines(Tail(strs))

----------------------------------------------------------------------------
(* schema.py *)

Location(n, c) == [kind |-> "Location", name |-> n, country |-> c]
Supplier(n, r, v) == [kind |-> "Supplier", name |-> n, risk_score |-> r, revenue |-> v]
Product(n, s, p) == [kind |-> "Product", name |-> n, sku |-> s, price |-> p]

None == [kind |-> "None"]

\* __hash__: the identity key of an entity
Key(e) ==
    CASE e.kind = "Location" -> <<e.name, e.country>>
      [] e.kind = "Supplier" -> <<e.name>>
      [] e.kind = "Product" -> <<e.sku>>

\* str(entity): the dataclass repr
Str(e) ==
    CASE e.kind = "Location" ->
            <<"Location(name='">> \o e.name \o <<"', country='">> \o e.country \o <<"')">>
      [] e.kind = "Supplier" ->
            <<"Supplier(name='">> \o e.name \o <<"', risk_score=">> \o <<ToString(e.risk_score)>>
                \o <<", revenue=">> \o <<ToString(e.revenue)>> \o <<")">>
      [] e.kind = "Product" ->
            <<"Product(name='">> \o e.name \o <<"', sku='">> \o e.sku \o <<"', price=">>
                \o <<ToString(e.price)>> \o <<")">>

----------------------------------------------------------------------------
(* graph_ops.py: SupplyChainGraph over networkx.DiGraph *)

\* DiGraph.add_node: a node equal to one already present is not added again
GraphAddNode(ns, n) == IF n \in Range(ns) THEN ns ELSE Append(ns, n)

\* DiGraph.add_edge: the endpoints are added when absent, source first; an
\* edge already present keeps its place and takes the new attribute
EdgeIndex(es, u, v) == {i \in 1..Len(es) : es[i].src = u /\ es[i].dst = v}

GraphAddEdge(es, u, v, t) ==
    IF EdgeIndex(es, u, v) # {}
    THEN [i \in 1..Len(es) |->
            IF i \in EdgeIndex(es, u, v) THEN [es[i] EXCEPT !.edge_type = t] ELSE es[i]]
    ELSE Append(es, [src |-> u, dst |-> v, edge_type |-> t])

\* (mutant) the names are compared with letter case ignored
RECURSIVE FirstNamedIgnoringCase(_, _)
FirstNamedIgnoringCase(ns, name) ==
    IF ns = <<>> THEN None
    ELSE IF Lower(Head(ns).name) = Lower(name) THEN Head(ns)
    ELSE FirstNamedIgnoringCase(Tail(ns), name)

\* next((node for node in self.graph.nodes if node.name == name), None)
RECURSIVE FirstNamed(_, _)
FirstNamed(ns, name) ==
    IF ns = <<>> THEN None
    ELSE IF Head(ns).name = name THEN Head(ns)
    ELSE FirstNamed(Tail(ns), name)

get_node_by_name(name) == FirstNamed(nodes, name)

\* graph.predecessors(n), graph.successors(n): in edge insertion order
RECURSIVE Predecessors(_, _)
Predecessors(es, n) ==
    IF es = <<>> THEN <<>>
    ELSE (IF Head(es).dst = n THEN <<Head(es).src>> ELSE <<>>) \o Predecessors(Tail(es), n)

RECURSIVE Successors(_, _)
Successors(es, n) ==
    IF es = <<>> THEN <<>>
    ELSE (IF Head(es).src = n THEN <<Head(es).dst>> ELSE <<>>) \o Successors(Tail(es), n)

\* (mutant) only the successors are listed
SuccessorsOnly(es, n) == Successors(es, n)

\* nx.all_neighbors(graph, n): chain(predecessors, successors)
AllNeighbors(es, n) == Predecessors(es, n) \o Successors(es, n)

----------------------------------------------------------------------------
(* vector_ops.py: the three stores over a chromadb collection *)

\* The embedding distance that collection.query ranks by: the number of
\* positions at which the two texts differ, letter case ignored (the default
\* embedding model is uncased).  The same text is at distance 0.
Max(a, b) == IF a >= b THEN a ELSE b

Dist(query, document) ==
    Cardinality({i \in 1..Max(Len(query), Len(document)) :
        \/ i > Len(query)
        \/ i > Len(document)
        \/ LowerChar(query[i]) # LowerChar(document[i])})

\* collection.query(query_texts=[query], n_results=k): the k nearest entries,
\* nearest first, entries at the same distance in insertion order
Nearest(coll, query) ==
    CHOOSE i \in 1..Len(coll) :
        \A j \in 1..Len(coll) :
            \/ Dist(query, coll[i].document) < Dist(query, coll[j].document)
            \/ Dist(query, coll[i].document) = Dist(query, coll[j].document) /\ i <= j

Without(coll, i) == SubSeq(coll, 1, i - 1) \o SubSeq(coll, i + 1, Len(coll))

RECURSIVE CollectionQuery(_, _, _)
CollectionQuery(coll, query, k) ==
    IF coll = <<>> \/ k = 0 THEN <<>>
    ELSE <<coll[Nearest(coll, query)]>>
            \o CollectionQuery(Without(coll, Nearest(coll, query)), query, k - 1)

\* collection.add(ids, documents, metadatas): a batch that repeats an id is
\* refused (DuplicateIDError) and nothing is written; an entry whose id the
\* collection already holds is left out
HasDuplicateIds(entries) ==
    \E i, j \in 1..Len(entries) : i # j /\ entries[i].id = entries[j].id

RECURSIVE CollectionAdd(_, _)
CollectionAdd(coll, entries) ==
    IF entries = <<>> THEN coll
    ELSE CollectionAdd(
            IF \E i \in 1..Len(coll) : coll[i].id = Head(entries).id
            THEN coll ELSE Append(coll, Head(entries)),
            Tail(entries))

\* add_products, add_suppliers, add_locations: what each writes per entity
ProductEntry(p) == [id |-> p.sku, document |-> p.name, metadata |-> p]
SupplierEntry(s) == [id |-> s.name, document |-> s.name, metadata |-> s]
LocationEntry(l) ==
    [id |-> l.name \o <<"::">> \o l.country,
     document |-> l.name \o <<" ">> \o l.country,
     metadata |-> l]

\* (mutant) the list is handed to the collection without the test for an
\* empty one, and the collection refuses an empty batch
AddToCollectionUnguarded(coll, entries) ==
    IF entries = <<>>
    THEN [coll |-> coll, returned |-> None, raised |-> "ValueError"]
    ELSE IF HasDuplicateIds(entries)
         THEN [coll |-> coll, returned |-> None, raised |-> "DuplicateIDError"]
         ELSE [coll |-> CollectionAdd(coll, entries), returned |-> TRUE, raised |-> "none"]

\* the body shared by the three add_* methods, after the ids are collected:
\* True when something was handed to the collection, False for an empty list
AddToCollection(coll, entries) ==
    IF entries # <<>>
    THEN IF HasDuplicateIds(entries)
         THEN [coll |-> coll, returned |-> None, raised |-> "DuplicateIDError"]
         ELSE [coll |-> CollectionAdd(coll, entries), returned |-> TRUE, raised |-> "none"]
    ELSE [coll |-> coll, returned |-> FALSE, raised |-> "none"]

\* get_products, get_suppliers, get_locations: the records rebuilt from the hits
get_products(query, k) ==
    LET hits == CollectionQuery(prodIdx, query, k) IN
    [i \in 1..Len(hits) |-> Product(hits[i].document, hits[i].id, hits[i].metadata.price)]

\* (mutant) the record is rebuilt from the document alone
get_suppliers_by_document(query, k) ==
    LET hits == CollectionQuery(supIdx, query, k) IN
    [i \in 1..Len(hits) |-> Supplier(hits[i].document, 0, 0)]

get_suppliers(query, k) ==
    LET hits == CollectionQuery(supIdx, query, k) IN
    [i \in 1..Len(hits) |->
        Supplier(hits[i].document, hits[i].metadata.risk_score, hits[i].metadata.revenue)]

get_locations(query, k) ==
    LET hits == CollectionQuery(locIdx, query, k) IN
    [i \in 1..Len(hits) |-> Location(hits[i].metadata.name, hits[i].metadata.country)]

\* set(locations): the distinct locations, in an order the hash seed decides
SetOrders(S) ==
    {o \in [1..Cardinality(S) -> S] : \A i, j \in 1..Cardinality(S) : o[i] = o[j] => i = j}

\* (mutant) add_products that leaves the first product out
ProductEntriesAfterFirst(products) ==
    [i \in 1..Len(products) - 1 |-> ProductEntry(products[i + 1])]

\* add_products(products), add_suppliers(suppliers): one entry per element
ProductEntries(products) == [i \in 1..Len(products) |-> ProductEntry(products[i])]
SupplierEntries(suppliers) == [i \in 1..Len(suppliers) |-> SupplierEntry(suppliers[i])]

\* (mutant) add_locations that passes no entry on
NoLocationEntries(order) == <<>>

\* add_locations(locations): one entry per element of set(locations), in the
\* order `order` in which the set is iterated
LocationEntries(order) == [i \in 1..Len(order) |-> LocationEntry(order[i])]

----------------------------------------------------------------------------
(* agent.py: the tools *)

TopK == 5

\* (mutant) the loop returns what it has collected along with the match
RECURSIVE ScanHitsKeeping(_, _, _)
ScanHitsKeeping(hits, query, acc) ==
    IF hits = <<>> THEN acc
    ELSE IF Lower(query) = Lower(Head(hits).name) THEN Append(acc, Str(Head(hits)))
    ELSE ScanHitsKeeping(Tail(hits), query, Append(acc, Str(Head(hits))))

\* the loop shared by the three retrieve_*_info tools: the first hit whose
\* name equals the query, letter case ignored, is returned alone
RECURSIVE ScanHits(_, _, _)
ScanHits(hits, query, acc) ==
    IF hits = <<>> THEN acc
    ELSE IF Lower(query) = Lower(Head(hits).name) THEN <<Str(Head(hits))>>
    ELSE ScanHits(Tail(hits), query, Append(acc, Str(Head(hits))))

NoSuppliersMsg(query) ==
    <<"No suppliers found matching '">> \o query \o <<"'. Try a different search term.">>

NoLocationsMsg(query) ==
    <<"No locations found matching '">> \o query \o <<"'. Try a different search term.">>

retrieve_product_info(query) == ScanHits(get_products(query, TopK), query, <<>>)

retrieve_supplier_info(query) ==
    IF get_suppliers(query, TopK) = <<>> THEN <<NoSuppliersMsg(query)>>
    ELSE ScanHits(get_suppliers(query, TopK), query, <<>>)

retrieve_location_info(query) ==
    IF get_locations(query, TopK) = <<>> THEN <<NoLocationsMsg(query)>>
    ELSE ScanHits(get_locations(query, TopK), query, <<>>)

\* (mutant) the location store is asked before the exact pass
ResolveSemanticFirst(node_name) ==
    LET locations == get_locations(node_name, 1)
        hit == IF locations # <<>> THEN get_node_by_name(locations[1].name) ELSE None
        exact == get_node_by_name(node_name)
    IN  IF hit # None
        THEN [found_node |-> hit, is_exact_match |-> FALSE,
              matched_via_semantic |-> TRUE, consulted |-> <<"Location">>]
        ELSE [found_node |-> exact, is_exact_match |-> exact # None,
              matched_via_semantic |-> FALSE, consulted |-> <<"Location">>]

\* (mutant) the supplier store is asked before the location store
ResolveSupplierFirst(node_name) ==
    LET exact == get_node_by_name(node_name)
        suppliers == get_suppliers(node_name, 1)
        afterSup == IF suppliers # <<>> THEN get_node_by_name(suppliers[1].name) ELSE None
        locations == get_locations(node_name, 1)
        afterLoc == IF afterSup # None THEN afterSup
                    ELSE IF locations # <<>> THEN get_node_by_name(locations[1].name)
                    ELSE None
    IN  IF exact # None
        THEN [found_node |-> exact, is_exact_match |-> TRUE,
              matched_via_semantic |-> FALSE, consulted |-> <<>>]
        ELSE [found_node |-> afterLoc, is_exact_match |-> FALSE,
              matched_via_semantic |-> suppliers # <<>> \/ locations # <<>>,
              consulted |-> <<"Supplier">>
                    \o (IF afterSup = None THEN <<"Location">> ELSE <<>>)]

\* (mutant) the first store that returns a hit decides, resolvable or not
ResolveNoFallThrough(node_name) ==
    LET exact == get_node_by_name(node_name)
        locations == get_locations(node_name, 1)
        suppliers == get_suppliers(node_name, 1)
        products == get_products(node_name, 1)
        hits == IF locations # <<>> THEN locations
                ELSE IF suppliers # <<>> THEN suppliers
                ELSE products
    IN  IF exact # None
        THEN [found_node |-> exact, is_exact_match |-> TRUE,
              matched_via_semantic |-> FALSE, consulted |-> <<>>]
        ELSE [found_node |-> IF hits # <<>> THEN get_node_by_name(hits[1].name) ELSE None,
              is_exact_match |-> FALSE,
              matched_via_semantic |-> hits # <<>>,
              consulted |-> <<"Location">>
                    \o (IF locations = <<>> THEN <<"Supplier">> ELSE <<>>)
                    \o (IF locations = <<>> /\ suppliers = <<>> THEN <<"Product">> ELSE <<>>)]

\* (mutant) the cascade starts at the supplier store when the call before was
\* a supplier lookup
ResolveWarm(node_name) ==
    LET exact == get_node_by_name(node_name)
        hits == IF last.op = "retrieve_supplier_info"
                THEN get_suppliers(node_name, 1) ELSE get_locations(node_name, 1)
        found == IF hits # <<>> THEN get_node_by_name(hits[1].name) ELSE None
    IN  IF exact # None
        THEN [found_node |-> exact, is_exact_match |-> TRUE,
              matched_via_semantic |-> FALSE, consulted |-> <<>>]
        ELSE [found_node |-> found, is_exact_match |-> FALSE,
              matched_via_semantic |-> hits # <<>>,
              consulted |-> IF last.op = "retrieve_supplier_info"
                            THEN <<"Supplier">> ELSE <<"Location">>]

\* explore_graph_connections, lines 163-188: the exact pass and the cascade.
\* `consulted` lists the stores that were queried, in order.
Resolve(node_name) ==
    LET exact == get_node_by_name(node_name)
        locations == get_locations(node_name, 1)
        afterLoc == IF locations # <<>> THEN get_node_by_name(locations[1].name) ELSE None
        suppliers == get_suppliers(node_name, 1)
        afterSup == IF afterLoc # None THEN afterLoc
                    ELSE IF suppliers # <<>> THEN get_node_by_name(suppliers[1].name)
                    ELSE None
        products == get_products(node_name, 1)
        afterProd == IF afterSup # None THEN afterSup
                     ELSE IF products # <<>> THEN get_node_by_name(products[1].name)
                     ELSE None
    IN  IF exact # None
        THEN [found_node |-> exact, is_exact_match |-> TRUE,
              matched_via_semantic |-> FALSE, consulted |-> <<>>]
        ELSE [found_node |-> afterProd, is_exact_match |-> FALSE,
              matched_via_semantic |->
                    \/ locations # <<>>
                    \/ afterLoc = None /\ suppliers # <<>>
                    \/ afterSup = None /\ products # <<>>,
              consulted |-> <<"Location">>
                    \o (IF afterLoc = None THEN <<"Supplier">> ELSE <<>>)
                    \o (IF afterSup = None THEN <<"Product">> ELSE <<>>)]

\* (mutant) the diagnostic does not repeat the query
NotFoundMsgNoQuery(node_name) ==
    <<"No node found (exact or similar).\n">>
    \o <<"Try using retrieve_location_info to find similar locations, ">>
    \o <<"or retrieve_supplier_info to find similar suppliers.">>

NotFoundMsg(node_name) ==
    <<"No node found matching '">> \o node_name \o <<"' (exact or similar).\n">>
    \o <<"Try using retrieve_location_info('">> \o node_name
    \o <<"') to find similar locations, ">>
    \o <<"or retrieve_supplier_info('">> \o node_name \o <<"') to find similar suppliers.">>

IsolatedMsg(name) ==
    <<"Node '">> \o name \o <<"' found but has no connections in the graph.">>

SemanticMsg(node_name, name, connected_nodes) ==
    <<"Note: No exact match for '">> \o node_name
    \o <<"', but found a semantically similar node: ">> \o name
    \o <<", and this semantically similar node has connections to the following nodes:\n">>
    \o <<"Connected nodes:\n">> \o JoinLines(connected_nodes)

\* str(neighbor) for neighbor in neighbors
StrEach(ns) == [i \in 1..Len(ns) |-> Str(ns[i])]

\* (mutant) a node without neighbours is reported as not found
RenderIsolatedAsNotFound(node_name, r) ==
    LET neighbors == AllNeighbors(edges, r.found_node)
        connected_nodes == StrEach(neighbors)
    IN  IF r.found_node = None \/ neighbors = <<>> THEN <<NotFoundMsg(node_name)>>
        ELSE IF r.matched_via_semantic
             THEN <<SemanticMsg(node_name, r.found_node.name, connected_nodes)>>
        ELSE connected_nodes

\* (mutant) the neighbour list is returned bare whatever the match was
RenderNoProvenance(node_name, r) ==
    LET neighbors == AllNeighbors(edges, r.found_node)
    IN  IF r.found_node = None THEN <<NotFoundMsg(node_name)>>
        ELSE IF neighbors = <<>> THEN <<IsolatedMsg(r.found_node.name)>>
        ELSE StrEach(neighbors)

\* explore_graph_connections, lines 190-213: what is returned
Render(node_name, r) ==
    LET neighbors == AllNeighbors(edges, r.found_node)
        connected_nodes == StrEach(neighbors)
    IN  IF r.found_node = None THEN <<NotFoundMsg(node_name)>>
        ELSE IF neighbors = <<>> THEN <<IsolatedMsg(r.found_node.name)>>
        ELSE IF r.matched_via_semantic
             THEN <<SemanticMsg(node_name, r.found_node.name, connected_nodes)>>
        ELSE connected_nodes

explore_graph_connections(node_name) == Render(node_name, Resolve(node_name))

----------------------------------------------------------------------------
(* The entities and queries the calls are drawn from *)

Ps == <<"P", "s">>
Cn == <<"C", "n">>
Ac == <<"A", "c">>
Wi == <<"W", "i">>
Dn == <<"D", "n">>
K1 == <<"K", "1">>
Up == <<"U", "p">>

PortOfShanghai == Location(Ps, Cn)
AcmeCorp == Supplier(Ac, 8, 5)
Widget == Product(Wi, K1, 50)
\* a second supplier of the same name (faker.company() may repeat a name)
AcmeTwin == Supplier(Ac, 3, 5)
\* a supplier that bears the name of the location
Namesake == Supplier(Ps, 3, 5)
\* a location of the same name in another country
PortTwin == Location(Ps, Dn)

\* a location of another name whose indexed text, name and country, is
\* nearer to the query "Ps" than Port of Shanghai's own
Near == Location(<<"P">>, <<"s">>)

\* the catalog of the end-to-end scenario, three in which a name is shared,
\* and one in which a search for a name ranks another entity first
EndToEnd == {PortOfShanghai, AcmeCorp, Widget}

Catalogs ==
    {EndToEnd,
     {PortOfShanghai, AcmeCorp, AcmeTwin},
     {PortOfShanghai, Namesake, Widget},
     {PortOfShanghai, PortTwin, AcmeCorp},
     {PortOfShanghai, Near}}

OfKind(kind) == {e \in catalog : e.kind = kind}
Queries == {Ps, Ac, Wi, Up}
\* the names get_node_by_name is called with: the queries, and one that
\* differs from a node's name in letter case only
Names == Queries \cup {Lower(Ps)}

\* the label generate_suppliers and generate_products give an edge to `target`
EdgeTypeTo(target) == IF target.kind = "Product" THEN "MANUFACTURES" ELSE "LOCATED_AT"

\* the lists of at most MaxBatch elements of S
Lists(S) == UNION {[1..n -> S] : n \in 0..MaxBatch}

----------------------------------------------------------------------------
(* The calls *)

Call(op, arg, returned, raised) ==
    [op |-> op, arg |-> arg, returned |-> returned, raised |-> raised, trace |-> None]

Init ==
    /\ nodes = <<>>
    /\ edges = <<>>
    /\ locIdx = <<>>
    /\ supIdx = <<>>
    /\ prodIdx = <<>>
    /\ last = Call("init", None, None, "none")
    /\ catalog \in Catalogs
    /\ pc = "api"
    /\ generated = [locations |-> <<>>, suppliers |-> <<>>, products |-> <<>>]
    /\ memo = None
    /\ run = NoRun

\* SupplyChainGraph.add_node
add_node(n) ==
    /\ nodes' = GraphAddNode(nodes, n)
    /\ last' = Call("add_node", n, None, "none")
    /\ UNCHANGED <<edges, locIdx, supIdx, prodIdx, catalog, program>>

\* SupplyChainGraph.add_edge
add_edge(source, target, edge_type) ==
    /\ nodes' = GraphAddNode(GraphAddNode(nodes, source), target)
    /\ edges' = GraphAddEdge(edges, source, target, edge_type)
    /\ last' = Call("add_edge", <<source, target, edge_type>>, None, "none")
    /\ UNCHANGED <<locIdx, supIdx, prodIdx, catalog, program>>

\* ProductVectorStore.add_products
add_products(products) ==
    LET r == AddToCollection(prodIdx, ProductEntries(products)) IN
    /\ prodIdx' = r.coll
    /\ last' = Call("add_products", products, r.returned, r.raised)
    /\ UNCHANGED <<nodes, edges, locIdx, supIdx, catalog, program>>

\* SupplierVectorStore.add_suppliers
add_suppliers(suppliers) ==
    LET r == AddToCollection(supIdx, SupplierEntries(suppliers)) IN
    /\ supIdx' = r.coll
    /\ last' = Call("add_suppliers", suppliers, r.returned, r.raised)
    /\ UNCHANGED <<nodes, edges, locIdx, prodIdx, catalog, program>>

\* LocationVectorStore.add_locations
add_locations(locations) ==
    \E order \in SetOrders(Range(locations)) :
        LET r == AddToCollection(locIdx, LocationEntries(order)) IN
        /\ locIdx' = r.coll
        /\ last' = Call("add_locations", locations, r.returned, r.raised)
        /\ UNCHANGED <<nodes, edges, supIdx, prodIdx, catalog, program>>

\* SupplyChainGraph.get_node_by_name
graph_get_node_by_name(name) ==
    /\ last' = Call("get_node_by_name", name, get_node_by_name(name), "none")
    /\ UNCHANGED <<nodes, edges, locIdx, supIdx, prodIdx, catalog, program>>

\* the tools of the agent
tool_retrieve_product_info(query) ==
    /\ last' = Call("retrieve_product_info", query, retrieve_product_info(query), "none")
    /\ UNCHANGED <<nodes, edges, locIdx, supIdx, prodIdx, catalog, program>>

tool_retrieve_supplier_info(query) ==
    /\ last' = Call("retrieve_supplier_info", query, retrieve_supplier_info(query), "none")
    /\ UNCHANGED <<nodes, edges, locIdx, supIdx, prodIdx, catalog, program>>

tool_retrieve_location_info(query) ==
    /\ last' = Call("retrieve_location_info", query, retrieve_location_info(query), "none")
    /\ UNCHANGED <<nodes, edges, locIdx, supIdx, prodIdx, catalog, program>>

tool_explore_graph_connections(node_name) ==
    /\ last' = [op |-> "explore_graph_connections", arg |-> node_name,
                returned |-> explore_graph_connections(node_name), raised |-> "none",
                trace |-> Resolve(node_name)]
    /\ UNCHANGED <<nodes, edges, locIdx, supIdx, prodIdx, catalog, program>>

\* The graph and the stores under any sequence of calls of their methods with
\* the entities of the catalog, edges being drawn as generate_suppliers and
\* generate_products draw them (from a Supplier to a Location or a Product),
\* and the four tools called at any time
Next ==
    \/ \E n \in catalog : add_node(n)
    \/ \E u \in OfKind("Supplier"), v \in catalog \ OfKind("Supplier") :
            add_edge(u, v, EdgeTypeTo(v))
    \/ \E l \in Lists(OfKind("Product")) : add_products(l)
    \/ \E l \in Lists(OfKind("Supplier")) : add_suppliers(l)
    \/ \E l \in Lists(OfKind("Location")) : add_locations(l)
    \/ \E q \in Queries : tool_retrieve_product_info(q)
    \/ \E q \in Queries : tool_retrieve_supplier_info(q)
    \/ \E q \in Queries : tool_retrieve_location_info(q)
    \/ \E q \in Queries : tool_explore_graph_connections(q)
    \/ \E name \in Names : graph_get_node_by_name(name)

Spec == Init /\ [][Next]_vars

----------------------------------------------------------------------------
(* graph_ops.py: generate_data.  agent.py, module level: the build *)

\* num_locations = random.randint(20, 30): here between 1 and MaxLocations
MaxLocations == 2
\* random.randint(1, 3) suppliers for each location
MaxSuppliersPerLocation == 3
\* random.randint(1, 3) products for each supplier: here between 1 and
\* MaxProductsPerSupplier
MaxProductsPerSupplier == 1

Wh == <<"W", "h">>
De == <<"D", "e">>
Bo == <<"B", "o">>
Cr == <<"C", "r">>

HamburgWarehouse == Location(Wh, De)
Bolt == Supplier(Bo, 3, 5)
Crane == Supplier(Cr, 8, 5)

\* what the random draws of a run are made from: the location names of the
\* templates (a name fixes its country), the companies faker.company() and the
\* random scores give, the product of faker.bs() and the random price
ProgramCatalogs ==
    {{PortOfShanghai, HamburgWarehouse, AcmeCorp, Bolt, Widget},
     {PortOfShanghai, AcmeCorp, AcmeTwin, Bolt, Crane, Widget}}

\* the sequences of 1 to max draws from S
Draws(S, max) == UNION {[1..n -> S] : n \in 1..max}

\* generate_locations, lines 128-171: each location drawn is added as a node
RECURSIVE AddNodes(_, _)
AddNodes(ns, list) ==
    IF list = <<>> THEN ns ELSE AddNodes(GraphAddNode(ns, Head(list)), Tail(list))

\* generate_suppliers, lines 188-195: the suppliers drawn for one location;
\* g is the graph and self.suppliers
RECURSIVE PlaceSuppliers(_, _, _)
PlaceSuppliers(g, location, drawn) ==
    IF drawn = <<>> THEN g
    ELSE LET supplier == Head(drawn)
             added == GraphAddNode(g.nodes, supplier)
         IN  PlaceSuppliers(
                [nodes |-> GraphAddNode(GraphAddNode(added, supplier), location),
                 edges |-> GraphAddEdge(g.edges, supplier, location, "LOCATED_AT"),
                 list |-> Append(g.list, supplier)],
                location, Tail(drawn))

\* generate_suppliers, lines 186-196: draws[i] are the suppliers of locs[i]
RECURSIVE GenerateSuppliers(_, _, _)
GenerateSuppliers(g, locs, draws) ==
    IF locs = <<>> THEN g
    ELSE GenerateSuppliers(PlaceSuppliers(g, Head(locs), Head(draws)), Tail(locs), Tail(draws))

\* str(self.faker.unique.random_int(min=1000, max=99999)): the k-th value
\* drawn, different from every value drawn before
Sku(k) == <<"K", ToString(k)>>

\* (mutant) the edge is drawn from the product to its supplier
RECURSIVE PlaceProductsReversed(_, _, _)
PlaceProductsReversed(g, supplier, drawn) ==
    IF drawn = <<>> THEN g
    ELSE LET product == Product(Head(drawn).name, Sku(Len(g.list) + 1), Head(drawn).price)
             added == GraphAddNode(g.nodes, product)
         IN  PlaceProductsReversed(
                [nodes |-> GraphAddNode(GraphAddNode(added, product), supplier),
                 edges |-> GraphAddEdge(g.edges, product, supplier, "MANUFACTURES"),
                 list |-> Append(g.list, product)],
                supplier, Tail(drawn))

\* generate_products, lines 211-221: the products drawn for one supplier;
\* g is the graph and self.products
RECURSIVE PlaceProducts(_, _, _)
PlaceProducts(g, supplier, drawn) ==
    IF drawn = <<>> THEN g
    ELSE LET product == Product(Head(drawn).name, Sku(Len(g.list) + 1), Head(drawn).price)
             added == GraphAddNode(g.nodes, product)
         IN  PlaceProducts(
                [nodes |-> GraphAddNode(GraphAddNode(added, supplier), product),
                 edges |-> GraphAddEdge(g.edges, supplier, product, "MANUFACTURES"),
                 list |-> Append(g.list, product)],
                supplier, Tail(drawn))

\* generate_products, lines 209-222: draws[i] are the products of sups[i]
RECURSIVE GenerateProducts(_, _, _)
GenerateProducts(g, sups, draws) ==
    IF sups = <<>> THEN g
    ELSE GenerateProducts(PlaceProducts(g, Head(sups), Head(draws)), Tail(sups), Tail(draws))

\* agent.py line 64: a fresh SupplyChainGraph and three fresh stores
ProgramInit ==
    /\ nodes = <<>>
    /\ edges = <<>>
    /\ locIdx = <<>>
    /\ supIdx = <<>>
    /\ prodIdx = <<>>
    /\ last = Call("init", None, None, "none")
    /\ catalog \in ProgramCatalogs
    /\ pc = "generate_locations"
    /\ generated = [locations |-> <<>>, suppliers |-> <<>>, products |-> <<>>]
    /\ memo = None
    /\ run = NoRun

\* generate_data, line 233
generate_locations ==
    /\ pc = "generate_locations"
    /\ \E locs \in Draws(OfKind("Location"), MaxLocations) :
        /\ nodes' = AddNodes(nodes, locs)
        /\ generated' = [generated EXCEPT !.locations = locs]
        /\ last' = Call("generate_locations", None, locs, "none")
    /\ pc' = "generate_suppliers"
    /\ UNCHANGED <<edges, locIdx, supIdx, prodIdx, catalog, memo, run>>

\* generate_data, line 234
generate_suppliers ==
    /\ pc = "generate_suppliers"
    /\ \E draws \in [1..Len(generated.locations) ->
                        Draws(OfKind("Supplier"), MaxSuppliersPerLocation)] :
        LET g == GenerateSuppliers(
                    [nodes |-> nodes, edges |-> edges, list |-> generated.suppliers],
                    generated.locations, draws)
        IN  /\ nodes' = g.nodes
            /\ edges' = g.edges
            /\ generated' = [generated EXCEPT !.suppliers = g.list]
            /\ last' = Call("generate_suppliers", generated.locations, g.list, "none")
    /\ pc' = "generate_products"
    /\ UNCHANGED <<locIdx, supIdx, prodIdx, catalog, memo, run>>

\* generate_data, lines 235-238
generate_products ==
    /\ pc = "generate_products"
    /\ \E draws \in [1..Len(generated.suppliers) ->
                        Draws(OfKind("Product"), MaxProductsPerSupplier)] :
        LET g == GenerateProducts(
                    [nodes |-> nodes, edges |-> edges, list |-> generated.products],
                    generated.suppliers, draws)
        IN  /\ nodes' = g.nodes
            /\ edges' = g.edges
            /\ generated' = [generated EXCEPT !.products = g.list]
            /\ last' = Call("generate_products", generated.suppliers, g.list, "none")
    /\ pc' = "add_products"
    /\ UNCHANGED <<locIdx, supIdx, prodIdx, catalog, memo, run>>

\* an exception at module level ends the import of agent.py
AfterAdd(r, next) == IF r.raised = "none" THEN next ELSE "crashed"

\* agent.py line 73
index_products ==
    LET r == AddToCollection(prodIdx, ProductEntries(generated.products)) IN
    /\ pc = "add_products"
    /\ prodIdx' = r.coll
    /\ pc' = AfterAdd(r, "add_suppliers")
    /\ last' = Call("add_products", generated.products, r.returned, r.raised)
    /\ UNCHANGED <<nodes, edges, locIdx, supIdx, catalog, generated, memo, run>>

\* agent.py line 74
index_suppliers ==
    LET r == AddToCollection(supIdx, SupplierEntries(generated.suppliers)) IN
    /\ pc = "add_suppliers"
    /\ supIdx' = r.coll
    /\ pc' = AfterAdd(r, "add_locations")
    /\ last' = Call("add_suppliers", generated.suppliers, r.returned, r.raised)
    /\ UNCHANGED <<nodes, edges, locIdx, prodIdx, catalog, generated, memo, run>>

\* agent.py line 75
index_locations ==
    /\ pc = "add_locations"
    /\ \E order \in SetOrders(Range(generated.locations)) :
        LET r == AddToCollection(locIdx, LocationEntries(order)) IN
        /\ locIdx' = r.coll
        /\ pc' = AfterAdd(r, "serve")
        /\ last' = Call("add_locations", generated.locations, r.returned, r.raised)
    /\ UNCHANGED <<nodes, edges, supIdx, prodIdx, catalog, generated, memo, run>>

\* agent.py lines 228-233: the tools the ToolNode runs by name
tools ==
    {"retrieve_product_info", "retrieve_supplier_info", "retrieve_location_info",
     "explore_graph_connections"}

InvokeTool(name, arg) ==
    CASE name = "retrieve_product_info" -> retrieve_product_info(arg)
      [] name = "retrieve_supplier_info" -> retrieve_supplier_info(arg)
      [] name = "retrieve_location_info" -> retrieve_location_info(arg)
      [] name = "explore_graph_connections" -> explore_graph_connections(arg)

\* memo: the first exploration served, and whether a call other than it has
\* been served since
Remember(call) ==
    IF memo = None
    THEN IF call.op = "explore_graph_connections"
         THEN [first |-> call, overtaken |-> FALSE] ELSE None
    ELSE IF <<call.op, call.arg>> # <<memo.first.op, memo.first.arg>>
         THEN [memo EXCEPT !.overtaken = TRUE] ELSE memo

\* (mutant) an exploration that matched by similarity files the matched node
\* under the name asked for
ToolNodeCaching(name, arg) ==
    LET call == [op |-> name, arg |-> arg, returned |-> InvokeTool(name, arg),
                 raised |-> "none",
                 trace |-> IF name = "explore_graph_connections" THEN Resolve(arg) ELSE None]
    IN  /\ pc = "serve"
        /\ last' = call
        /\ memo' = Remember(call)
        /\ nodes' = IF call.trace # None /\ call.trace.matched_via_semantic
                        /\ call.trace.found_node # None
                     THEN Append(nodes, [call.trace.found_node EXCEPT !.name = arg])
                     ELSE nodes
        /\ UNCHANGED <<edges, locIdx, supIdx, prodIdx, catalog, pc, generated>>

\* a tool call served once the module is imported
ToolNode(name, arg) ==
    LET call == [op |-> name, arg |-> arg, returned |-> InvokeTool(name, arg),
                 raised |-> "none",
                 trace |-> IF name = "explore_graph_connections" THEN Resolve(arg) ELSE None]
    IN  /\ pc = "serve"
        /\ last' = call
        /\ memo' = Remember(call)
        /\ UNCHANGED <<nodes, edges, locIdx, supIdx, prodIdx, catalog, pc, generated>>

\* The program: generate_data, the three stores filled from what it
\* generated, then tool calls in any number and order
ProgramNext ==
    \/ generate_locations
    \/ generate_suppliers
    \/ generate_products
    \/ index_products
    \/ index_suppliers
    \/ index_locations
    \/ pc = "serve" /\ UNCHANGED run /\ \E name \in tools, q \in Queries : ToolNode(name, q)

Program == ProgramInit /\ [][ProgramNext]_vars

----------------------------------------------------------------------------
(* One run of main.py: agent.invoke on the compiled chatbot/tools graph *)

\* main.py line 55: config = {"recursion_limit": 50}
RecursionLimit == 50

HumanMessage == [type |-> "human", tool_calls |-> 0]
ToolMessage == [type |-> "tool", tool_calls |-> 0]
AIMessage(tool_calls) == [type |-> "ai", tool_calls |-> tool_calls]

\* agent.py lines 277-291: the two messages chatbot may add to what it sends
SystemPrompt == [type |-> "system", tool_calls |-> 0, content |-> "agent"]
Reminder == [type |-> "system", tool_calls |-> 0, content |-> "reminder"]

\* agent.py line 286: if tool_call_count >= 12
ReminderThreshold == 12

\* agent.py line 271: the messages of the state that carry tool calls
tool_call_count(messages) ==
    Cardinality({i \in 1..Len(messages) : messages[i].tool_calls > 0})

\* agent.py line 274
has_system_message(messages) ==
    \E i \in 1..Len(messages) : messages[i].type = "system"

\* (mutant) the reminder comes one tool-call message later
ReminderLate(count) == count > ReminderThreshold

ReminderDue(count) == count >= ReminderThreshold

\* agent.py lines 268-291: the list chatbot hands to the language model
Outgoing(messages) ==
    (IF has_system_message(messages) THEN <<>> ELSE <<SystemPrompt>>)
        \o messages
        \o (IF ReminderDue(tool_call_count(messages)) THEN <<Reminder>> ELSE <<>>)

\* what the language model may answer: a message asking for a tool, a
\* message asking for none, or an error of the API call
Replies == {"tool_call", "answer", "error"}

\* (mutant) a graph run without a limit on its steps
NeverOutOfSteps(step) == FALSE

\* the graph run has used the steps its configuration allows
OutOfSteps(step) == step >= RecursionLimit

\* (mutant) every message of the model goes to the tools node
tools_always(message) == "tools"

\* agent.py line 302: a message carrying tool calls goes to the tools node,
\* any other ends the graph
tools_condition(message) == IF message.tool_calls > 0 THEN "tools" ELSE "__end__"

\* a world after the import of agent.py: two locations, a supplier at each,
\* a product of each supplier, the three stores filled
Imported ==
    LET locs == <<PortOfShanghai, HamburgWarehouse>>
        s == GenerateSuppliers([nodes |-> AddNodes(<<>>, locs), edges |-> <<>>, list |-> <<>>],
                               locs, <<<<AcmeCorp>>, <<Bolt>>>>)
        g == GenerateProducts([nodes |-> s.nodes, edges |-> s.edges, list |-> <<>>],
                              s.list, <<<<Widget>>, <<Widget>>>>)
    IN  [nodes |-> g.nodes, edges |-> g.edges,
         generated |-> [locations |-> locs, suppliers |-> s.list, products |-> g.list],
         prodIdx |-> AddToCollection(<<>>, ProductEntries(g.list)).coll,
         supIdx |-> AddToCollection(<<>>, SupplierEntries(s.list)).coll,
         locIdx |-> AddToCollection(<<>>, LocationEntries(locs)).coll]

AgentInit ==
    /\ catalog = {PortOfShanghai, HamburgWarehouse, AcmeCorp, Bolt, Widget}
    /\ nodes = Imported.nodes
    /\ edges = Imported.edges
    /\ generated = Imported.generated
    /\ prodIdx = Imported.prodIdx
    /\ supIdx = Imported.supIdx
    /\ locIdx = Imported.locIdx
    /\ last = Call("import", <<>>, <<>>, "none")
    /\ pc = "serve"
    /\ memo = None
    /\ run = NoRun

\* main.py lines 57-60: the graph starts on the question, its edge from
\* __start__ leading to the chatbot
main_invoke ==
    /\ pc = "serve"
    /\ run = NoRun
    /\ run' = [node |-> "chatbot", step |-> 0, messages |-> <<HumanMessage>>,
               sent |-> <<>>, outcome |-> "running", exit |-> 0]
    /\ UNCHANGED <<nodes, edges, locIdx, supIdx, prodIdx, last, catalog, pc, generated, memo>>

\* the chatbot node: one call of the language model, its reply appended to
\* the messages and routed; an error of the call leaves agent.invoke and
\* main.py's handlers exit with status 1
chatbot ==
    /\ run.outcome = "running"
    /\ run.node = "chatbot"
    /\ ~OutOfSteps(run.step)
    /\ \E reply \in Replies :
        IF reply = "error"
        THEN run' = [run EXCEPT !.sent = Outgoing(run.messages),
                                !.outcome = "llm_error", !.exit = 1]
        ELSE LET message == AIMessage(IF reply = "tool_call" THEN 1 ELSE 0)
                 next == tools_condition(message)
             IN  run' = [run EXCEPT !.sent = Outgoing(run.messages),
                                    !.messages = Append(@, message),
                                    !.step = @ + 1,
                                    !.node = next,
                                    !.outcome = IF next = "__end__" THEN "completed" ELSE @]
    /\ UNCHANGED <<nodes, edges, locIdx, supIdx, prodIdx, last, catalog, pc, generated, memo>>

\* what a step of the tools node does to the run: the tool's result is
\* appended, and the edge leads back to the chatbot
tools_edge ==
    /\ run.outcome = "running"
    /\ run.node = "tools"
    /\ ~OutOfSteps(run.step)
    /\ run' = [run EXCEPT !.messages = Append(@, ToolMessage),
                          !.step = @ + 1,
                          !.node = "chatbot"]

\* the tools node: the tool the last message names is run
tools_node ==
    /\ tools_edge
    /\ \E name \in tools, q \in Queries : ToolNode(name, q)

\* a node is due and the steps are used up: GraphRecursionError, caught by
\* main.py, reported, exit(1)
recursion_limit ==
    /\ run.outcome = "running"
    /\ run.node \in {"chatbot", "tools"}
    /\ OutOfSteps(run.step)
    /\ run' = [run EXCEPT !.outcome = "GraphRecursionError", !.exit = 1]
    /\ UNCHANGED <<nodes, edges, locIdx, supIdx, prodIdx, last, catalog, pc, generated, memo>>

AgentNext ==
    \/ main_invoke
    \/ chatbot
    \/ tools_node
    \/ recursion_limit

\* the runtime runs the node that is due: a step of the run that stays
\* possible is taken (a tool is always there to run, so the tools node can
\* step whenever tools_edge can)
AgentSpec ==
    /\ AgentInit /\ [][AgentNext]_vars
    /\ WF_run(main_invoke) /\ WF_run(chatbot) /\ WF_run(tools_edge) /\ WF_run(recursion_limit)

----------------------------------------------------------------------------
(* Properties of explore_graph_connections *)

Explored == last.op = "explore_graph_connections"

\* the hit of each store for the query of the last call, recomputed
TopLocation == get_locations(last.arg, 1)
TopSupplier == get_suppliers(last.arg, 1)
TopProduct == get_products(last.arg, 1)

\* a store's top hit bears the name of a graph node
Resolvable(hits) == hits # <<>> /\ \E i \in 1..Len(nodes) : nodes[i].name = hits[1].name

\* the earliest-inserted node of that name
Earliest(name) ==
    nodes[CHOOSE i \in 1..Len(nodes) :
            nodes[i].name = name /\ \A j \in 1..(i - 1) : nodes[j].name # name]

NameInGraph(name) == \E i \in 1..Len(nodes) : nodes[i].name = name

\* the nodes joined to n by an edge in either direction
NeighborSet(n) ==
    {e.dst : e \in {x \in Range(edges) : x.src = n}}
        \cup {e.src : e \in {x \in Range(edges) : x.dst = n}}

IsSemanticNote(strs) ==
    Len(strs) = 1 /\ Head(strs[1]) = "Note: No exact match for '"

\* C1. Exact-match priority: when some node's name equals the query, the
\* exact pass resolves it: the node found bears that name, the match is
\* reported as exact, no store is consulted and the result is not the
\* semantic note nor the not-found diagnostic.
C1_ExactMatchPriority ==
    (Explored /\ NameInGraph(last.arg)) =>
        /\ last.trace.is_exact_match
        /\ ~last.trace.matched_via_semantic
        /\ last.trace.consulted = <<>>
        /\ last.trace.found_node = Earliest(last.arg)
        /\ ~IsSemanticNote(last.returned)
        /\ last.returned # <<NotFoundMsg(last.arg)>>

\* the query names a node while the location store ranks another entity first
C1_Witness ==
    /\ Explored /\ NameInGraph(last.arg)
    /\ TopLocation # <<>>
    /\ TopLocation[1] # last.trace.found_node
    /\ Resolvable(TopLocation)

\* the graph and the stores of the end-to-end scenario
EndToEndBuilt ==
    /\ catalog = EndToEnd
    /\ Range(nodes) = EndToEnd
    /\ {<<e.src, e.dst, e.edge_type>> : e \in Range(edges)} =
            {<<AcmeCorp, PortOfShanghai, "LOCATED_AT">>, <<AcmeCorp, Widget, "MANUFACTURES">>}
    /\ locIdx = <<LocationEntry(PortOfShanghai)>>
    /\ supIdx = <<SupplierEntry(AcmeCorp)>>
    /\ prodIdx = <<ProductEntry(Widget)>>

\* C2. End-to-end not-found: in the end-to-end scenario, exploring a query that
\* equals no node name and describes no entity yields the not-found diagnostic.
C2_EndToEndNotFound ==
    (EndToEndBuilt /\ Explored /\ last.arg = Up) => last.returned = <<NotFoundMsg(Up)>>

\* C3 as claimed. Cascade order: when no node's name equals the query and both
\* the location and the supplier store return a hit, the node resolved is the
\* location the location store ranked first.
C3_Claimed ==
    (Explored /\ ~NameInGraph(last.arg) /\ TopLocation # <<>> /\ TopSupplier # <<>>) =>
        last.trace.found_node = TopLocation[1]

\* C3 as amended. Cascade order: when no node's name equals the query and the
\* location store's hit bears the name of a graph node, the node resolved is
\* the earliest-inserted node of that name (the location itself when it is the
\* only node so named), the match is semantic and the supplier and product
\* stores are not consulted, whatever they hold; the supplier store decides
\* only when the location store's hit names no graph node.
C3_CascadeOrder ==
    (Explored /\ ~NameInGraph(last.arg) /\ TopLocation # <<>>) =>
        IF NameInGraph(TopLocation[1].name)
        THEN /\ last.trace.found_node = Earliest(TopLocation[1].name)
             /\ last.trace.consulted = <<"Location">>
             /\ last.trace.matched_via_semantic
             /\ (\A i \in 1..Len(nodes) :
                    nodes[i].name = TopLocation[1].name => nodes[i] = TopLocation[1])
                    => last.trace.found_node = TopLocation[1]
        ELSE /\ Len(last.trace.consulted) >= 2
             /\ last.trace.consulted[2] = "Supplier"
             /\ Resolvable(TopSupplier) =>
                    last.trace.found_node = Earliest(TopSupplier[1].name)

\* both stores return a hit and the location is the node resolved
C3_Witness ==
    /\ Explored /\ ~NameInGraph(last.arg)
    /\ TopLocation # <<>> /\ Resolvable(TopSupplier)
    /\ last.trace.found_node = TopLocation[1]
    /\ last.trace.found_node.kind = "Location"

\* C4. Cascade fall-through: on an exact miss the stores are tried in the order
\* Location, Supplier, Product; a hit that names no graph node passes the
\* resolution on to the next store, and the not-found diagnostic is returned
\* exactly when no store has a hit that names a graph node.
C4_FallThrough ==
    (Explored /\ ~NameInGraph(last.arg)) =>
        /\ (last.returned = <<NotFoundMsg(last.arg)>>) <=>
                ~(Resolvable(TopLocation) \/ Resolvable(TopSupplier) \/ Resolvable(TopProduct))
        /\ (last.trace.found_node = None) <=>
                ~(Resolvable(TopLocation) \/ Resolvable(TopSupplier) \/ Resolvable(TopProduct))
        /\ (~Resolvable(TopLocation) /\ Resolvable(TopSupplier)) =>
                /\ last.trace.found_node = Earliest(TopSupplier[1].name)
                /\ last.trace.consulted = <<"Location", "Supplier">>
        /\ (~Resolvable(TopLocation) /\ ~Resolvable(TopSupplier) /\ Resolvable(TopProduct)) =>
                /\ last.trace.found_node = Earliest(TopProduct[1].name)
                /\ last.trace.consulted = <<"Location", "Supplier", "Product">>

\* a location hit that names no graph node, and the supplier store resolves
C4_Witness ==
    /\ Explored /\ ~NameInGraph(last.arg)
    /\ TopLocation # <<>> /\ ~Resolvable(TopLocation)
    /\ Resolvable(TopSupplier)
    /\ last.trace.found_node.kind = "Supplier"

\* C5 as claimed. Isolation: for every node n without edges, exploring n's
\* name returns the 'found but has no connections' diagnostic naming n.
C5_Claimed ==
    Explored =>
        \A i \in 1..Len(nodes) :
            (nodes[i].name = last.arg /\ NeighborSet(nodes[i]) = {}) =>
                last.returned = <<IsolatedMsg(nodes[i].name)>>

\* the bare list of the display strings of n's neighbours, in some order
BareLists(n) == {StrEach(nb) : nb \in SetOrders(NeighborSet(n))}

\* C5 as amended. Isolation: for every node n without edges, exploring n's
\* name is an exact match and never returns the not-found diagnostic; it
\* returns the 'found but has no connections' diagnostic naming n when the
\* earliest-inserted node of that name has no edges (so whenever n's name is
\* unique in the graph), and otherwise the neighbour list of that earlier node.
C5_Isolation ==
    Explored =>
        \A i \in 1..Len(nodes) :
            (nodes[i].name = last.arg /\ NeighborSet(nodes[i]) = {}) =>
                /\ last.returned # <<NotFoundMsg(last.arg)>>
                /\ last.trace.is_exact_match
                /\ IF NeighborSet(Earliest(last.arg)) = {}
                   THEN last.returned = <<IsolatedMsg(nodes[i].name)>>
                   ELSE last.returned \in BareLists(Earliest(last.arg))

\* an isolated node is explored by name in a graph that holds edges
C5_Witness ==
    /\ Explored /\ edges # <<>>
    /\ \E i \in 1..Len(nodes) : nodes[i].name = last.arg /\ NeighborSet(nodes[i]) = {}
    /\ last.returned = <<IsolatedMsg(last.arg)>>

\* C6. Direction-agnostic one-hop neighbours: the neighbours listed for a
\* resolved node are exactly the nodes joined to it by an edge in either
\* direction, each once and no other node: alone when the match is exact,
\* inside the note when it is semantic.
C6_OneHopNeighbors ==
    (Explored /\ last.trace.found_node # None) =>
        IF NeighborSet(last.trace.found_node) = {}
        THEN last.returned = <<IsolatedMsg(last.trace.found_node.name)>>
        ELSE \E strs \in BareLists(last.trace.found_node) :
                IF last.trace.is_exact_match
                THEN last.returned = strs
                ELSE last.returned =
                        <<SemanticMsg(last.arg, last.trace.found_node.name, strs)>>

\* the supplier has an edge to the location and one to the product; the
\* location's neighbours are the supplier alone
C6_Witness ==
    /\ Explored /\ last.arg = Ps
    /\ \E e \in Range(edges) : e.src = AcmeCorp /\ e.dst = PortOfShanghai
    /\ \E e \in Range(edges) : e.src = AcmeCorp /\ e.dst = Widget
    /\ last.returned = <<Str(AcmeCorp)>>

\* the strings `parts` occur in `whole` one after the other
RECURSIVE ContainsInOrder(_, _)
ContainsInOrder(whole, parts) ==
    IF parts = <<>> THEN TRUE
    ELSE \E i \in 0..(Len(whole) - Len(Head(parts))) :
            /\ SubSeq(whole, i + 1, i + Len(Head(parts))) = Head(parts)
            /\ ContainsInOrder(SubSeq(whole, i + Len(Head(parts)) + 1, Len(whole)),
                               Tail(parts))

\* what the call returns for node n when the exact pass resolves it
ExactShapes(n) ==
    IF NeighborSet(n) = {} THEN {<<IsolatedMsg(n.name)>>} ELSE BareLists(n)

\* C7 as claimed. Match provenance is surfaced: the bare neighbour list is
\* returned if and only if the exact pass resolved the node, and a node
\* resolved through a store is never returned in the shape of an exact result.
C7_Claimed ==
    (Explored /\ last.trace.found_node # None) =>
        /\ NeighborSet(last.trace.found_node) # {} =>
                (last.returned \in BareLists(last.trace.found_node)
                    <=> last.trace.is_exact_match)
        /\ ~last.trace.is_exact_match =>
                last.returned \notin ExactShapes(last.trace.found_node)

\* C7 as amended. Match provenance is surfaced for a node that has neighbours:
\* the bare neighbour list is returned if and only if the exact pass resolved
\* the node, and a node resolved through a store yields one note that holds
\* the query verbatim, then the matched node's name, then every neighbour
\* string.  For a node without neighbours the same 'no connections' diagnostic
\* is returned whether the match was exact or semantic.
C7_Provenance ==
    (Explored /\ last.trace.found_node # None) =>
        IF NeighborSet(last.trace.found_node) = {}
        THEN last.returned = <<IsolatedMsg(last.trace.found_node.name)>>
        ELSE /\ last.returned \in BareLists(last.trace.found_node)
                    <=> last.trace.is_exact_match
             /\ ~last.trace.is_exact_match =>
                    /\ IsSemanticNote(last.returned)
                    /\ \E strs \in BareLists(last.trace.found_node) :
                            ContainsInOrder(last.returned[1],
                                <<last.arg, last.trace.found_node.name>> \o strs)

\* a node with neighbours is resolved through a store
C7_Witness ==
    /\ Explored /\ ~last.trace.is_exact_match
    /\ last.trace.found_node # None
    /\ NeighborSet(last.trace.found_node) # {}
    /\ IsSemanticNote(last.returned)

\* C8. Not-found is a value: a query that resolves to no node raises nothing
\* and returns one diagnostic that holds the query verbatim and suggests
\* description-lookup tools, each called with the query.
C8_NotFoundIsAValue ==
    (Explored /\ last.trace.found_node = None) =>
        /\ last.raised = "none"
        /\ Len(last.returned) = 1
        /\ Head(last.returned[1]) = "No node found matching '"
        /\ Contains(last.returned[1], <<"No node found matching '">> \o last.arg)
        /\ \/ Contains(last.returned[1], <<"Try using retrieve_location_info('">> \o last.arg)
           \/ Contains(last.returned[1], <<"or retrieve_supplier_info('">> \o last.arg)
           \/ Contains(last.returned[1], <<"or retrieve_product_info('">> \o last.arg)

\* a query is not resolved although a store returned a hit
C8_Witness ==
    /\ Explored /\ last.trace.found_node = None
    /\ TopLocation # <<>>
    /\ last.returned = <<NotFoundMsg(last.arg)>>

----------------------------------------------------------------------------
(* Properties of the description-lookup tools and of the stores *)

Retrieved ==
    last.op \in {"retrieve_product_info", "retrieve_supplier_info", "retrieve_location_info"}

\* the hits of the search the last lookup made
Searched ==
    CASE last.op = "retrieve_product_info" -> get_products(last.arg, TopK)
      [] last.op = "retrieve_supplier_info" -> get_suppliers(last.arg, TopK)
      [] last.op = "retrieve_location_info" -> get_locations(last.arg, TopK)

IsNoMatches(strs) ==
    /\ Len(strs) = 1
    /\ Head(strs[1]) \in {"No products found matching '", "No suppliers found matching '",
                          "No locations found matching '"}

\* C9. Lookup sentinel: whenever the search yields no entity, each of the
\* three lookup tools returns a 'no matches' message, never an empty list.
C9_LookupSentinel ==
    (Retrieved /\ Searched = <<>>) => (last.returned # <<>> /\ IsNoMatches(last.returned))

Added == last.op \in {"add_products", "add_suppliers", "add_locations"}

\* the collection the last add wrote to
AddedTo ==
    CASE last.op = "add_products" -> prodIdx
      [] last.op = "add_suppliers" -> supIdx
      [] last.op = "add_locations" -> locIdx

\* the id the stores file an entity under
IdOf(e) ==
    CASE e.kind = "Product" -> ProductEntry(e).id
      [] e.kind = "Supplier" -> SupplierEntry(e).id
      [] e.kind = "Location" -> LocationEntry(e).id

\* C10. Dedup law: no collection holds two entries for one identity key, and an
\* add that is passed two entities of the same key succeeds and leaves exactly
\* one entry for that key.
C10_DedupLaw ==
    /\ \A coll \in {locIdx, supIdx, prodIdx} :
            \A i, j \in 1..Len(coll) : coll[i].id = coll[j].id => i = j
    /\ Added =>
            \A i, j \in 1..Len(last.arg) :
                (i # j /\ Key(last.arg[i]) = Key(last.arg[j])) =>
                    /\ last.raised = "none"
                    /\ Cardinality({k \in 1..Len(AddedTo) :
                            AddedTo[k].id = IdOf(last.arg[i])}) = 1


----------------------------------------------------------------------------
(* Properties of the graph *)

\* C11. add_node is idempotent by identity key: the graph never holds two
\* nodes of one kind with the same identity key (Supplier: name; Product: sku;
\* Location: name and country), also when their other fields differ.
C11_AddNodeIdempotent ==
    \A i, j \in 1..Len(nodes) :
        (nodes[i].kind = nodes[j].kind /\ Key(nodes[i]) = Key(nodes[j])) => i = j

\* C12. add_edge requires present endpoints: a call of add_edge with an
\* endpoint that is not a node of the graph leaves the nodes and the edges as
\* they were, and only add_node adds a node.
C12_AddEdgeRequiresEndpoints ==
    [][/\ (last'.op = "add_edge" /\ ~({last'.arg[1], last'.arg[2]} \subseteq Range(nodes)))
            => (nodes' = nodes /\ edges' = edges)
       /\ (last'.op # "add_node") => (nodes' = nodes)]_vars


----------------------------------------------------------------------------
(* Properties of the program: generate_data, the build, the tools *)

KindsOf(e) == <<e.src.kind, e.dst.kind>>

\* C13. Edge typing: in every state reached through generate_data, an edge
\* labelled LOCATED_AT runs from a Supplier to a Location, an edge labelled
\* MANUFACTURES runs from a Supplier to a Product, no edge joins two Locations
\* or two Products, and no edge is a self-loop.
C13_EdgeTyping ==
    \A i \in 1..Len(edges) :
        /\ edges[i].edge_type = "LOCATED_AT" => KindsOf(edges[i]) = <<"Supplier", "Location">>
        /\ edges[i].edge_type = "MANUFACTURES" => KindsOf(edges[i]) = <<"Supplier", "Product">>
        /\ KindsOf(edges[i]) \notin {<<"Location", "Location">>, <<"Product", "Product">>}
        /\ edges[i].src # edges[i].dst

\* generate_data has returned a graph with edges of both labels
C13_Witness ==
    /\ pc = "add_products"
    /\ \E i, j \in 1..Len(edges) :
            edges[i].edge_type = "LOCATED_AT" /\ edges[j].edge_type = "MANUFACTURES"


stores == <<nodes, edges, locIdx, supIdx, prodIdx>>

Queried == last.op \in tools

----------------------------------------------------------------------------
(* Properties of get_node_by_name and of the stores *)

\* C16. get_node_by_name is an exact, case-sensitive first-match lookup: it
\* returns the earliest-inserted node whose name equals the argument character
\* for character, nothing when no node has that name, and never a node whose
\* name differs from the argument, be it in letter case only.
C16_FindByName ==
    last.op = "get_node_by_name" =>
        /\ NameInGraph(last.arg) => last.returned = Earliest(last.arg)
        /\ ~NameInGraph(last.arg) => last.returned = None
        /\ last.returned # None => last.returned.name = last.arg

\* the name of a node is asked for in lower case and nothing is returned
C16_Witness ==
    /\ last.op = "get_node_by_name"
    /\ last.arg = Lower(Ps) /\ last.arg # Ps
    /\ NameInGraph(Ps)
    /\ last.returned = None


\* the value of a Python bool as a number: False == 0, True == 1
IntValue(b) == IF b THEN 1 ELSE 0

\* the index an add_* or a retrieve_*_info call works on
IndexOf(op) ==
    CASE op \in {"add_products", "retrieve_product_info"} -> prodIdx
      [] op \in {"add_suppliers", "retrieve_supplier_info"} -> supIdx
      [] op \in {"add_locations", "retrieve_location_info"} -> locIdx

\* C17. Empty-input conditions are results, not errors: adding an empty list
\* to any of the three indexes returns 0 (False), raises nothing and leaves
\* the collection as it was; a search of an index that holds nothing returns
\* the empty list for every query and every k, and raises nothing.
C17_EmptyInput ==
    /\ []((Added /\ last.arg = <<>>) =>
            (last.raised = "none" /\ IntValue(last.returned) = 0))
    /\ [][(last'.op \in {"add_products", "add_suppliers", "add_locations"}
                /\ last'.arg = <<>>)
            => <<locIdx, supIdx, prodIdx>>' = <<locIdx, supIdx, prodIdx>>]_vars
    /\ []((Retrieved /\ IndexOf(last.op) = <<>>) =>
            (last.raised = "none" /\ Searched = <<>>))
    /\ [](\A q \in Queries, k \in 1..TopK :
            /\ prodIdx = <<>> => get_products(q, k) = <<>>
            /\ supIdx = <<>> => get_suppliers(q, k) = <<>>
            /\ locIdx = <<>> => get_locations(q, k) = <<>>)

\* an empty list has been added to a store that holds entries already
C17_Witness ==
    /\ Added /\ last.arg = <<>>
    /\ last.returned = FALSE
    /\ IndexOf(last.op) # <<>>


\* the entities a store holds an entry for
Indexed == {x.metadata : x \in Range(locIdx) \cup Range(supIdx) \cup Range(prodIdx)}

\* a search of e's kind's store for e's display name, k = 1
SearchByName(e) ==
    CASE e.kind = "Location" -> get_locations(e.name, 1)
      [] e.kind = "Supplier" -> get_suppliers(e.name, 1)
      [] e.kind = "Product" -> get_products(e.name, 1)

\* another entry of e's store bears e's name, letter case ignored
NameShared(e) ==
    \E o \in Indexed : o # e /\ o.kind = e.kind /\ Lower(o.name) = Lower(e.name)

Generated == pc \notin {"api", "generate_locations", "generate_suppliers", "generate_products"}

\* the suppliers with a LOCATED_AT edge to the location
SuppliersAt(location) ==
    {e.src : e \in {x \in Range(edges) : x.dst = location /\ x.edge_type = "LOCATED_AT"}}

\* C19. Populator cardinality: after generate_data on a fresh graph, every
\* Location node has between 1 and 3 Suppliers with a LOCATED_AT edge to it,
\* whatever the random draws were.
C19_PopulatorCardinality ==
    Generated =>
        \A n \in Range(nodes) :
            n.kind = "Location" => Cardinality(SuppliersAt(n)) \in 1..MaxSuppliersPerLocation


----------------------------------------------------------------------------
(* Properties of the agent run *)

Ended == run.outcome \notin {"none", "running"}

\* C20 as stated. Every agent.invoke ends in one of two ways: the language
\* model answers without a tool call, or the recursion limit is reached.
C20_Claimed ==
    (run.outcome = "running") ~> (run.outcome \in {"completed", "GraphRecursionError"})

\* C20. Every agent.invoke started by main.py ends: with an answer of the
\* language model that carries no tool call (exit status 0), with the
\* recursion limit of 50 steps reached (GraphRecursionError caught, exit
\* status 1), or with an error of the language model's API call (caught,
\* exit status 1). No run takes more than 50 steps, whatever the model asks.
C20_Terminates ==
    /\ [](run.step <= RecursionLimit)
    /\ [](run.outcome = "completed" =>
            /\ run.node = "__end__"
            /\ run.messages[Len(run.messages)] = AIMessage(0)
            /\ run.exit = 0)
    /\ [](run.outcome = "GraphRecursionError" =>
            /\ run.step = RecursionLimit
            /\ run.messages[Len(run.messages)].type = "tool"
            /\ run.exit = 1)
    /\ [](run.outcome = "llm_error" => run.exit = 1)
    /\ [](Ended => run.outcome \in {"completed", "GraphRecursionError", "llm_error"})
    /\ (run.outcome = "running") ~> Ended

\* a run in which the model asked for a tool on every turn, ended by the limit
C20_Witness ==
    /\ run.outcome = "GraphRecursionError"
    /\ \A i \in 1..Len(run.messages) :
            run.messages[i].type = "ai" => run.messages[i].tool_calls > 0

\* the step appended a message of the given type to the conversation
Appended(type) ==
    /\ Len(run'.messages) = Len(run.messages) + 1
    /\ SubSeq(run'.messages, 1, Len(run.messages)) = run.messages
    /\ run'.messages[Len(run'.messages)].type = type

\* a step of the chatbot node that produced a message, a step of the tools node
ChatbotStepped == run.outcome = "running" /\ Appended("ai")
ToolsStepped == run.outcome = "running" /\ Appended("tool")

\* the routing of the graph, step by step
Routing ==
    /\ run = NoRun /\ run' # run => run'.node = "chatbot"
    /\ ChatbotStepped =>
            /\ run.node = "chatbot"
            /\ run'.node = "tools" <=> run'.messages[Len(run'.messages)].tool_calls > 0
            /\ run'.node = "__end__" <=> run'.messages[Len(run'.messages)].tool_calls = 0
    /\ ToolsStepped =>
            /\ run.node = "tools"
            /\ run.messages[Len(run.messages)].type = "ai"
            /\ run'.node = "chatbot"
    /\ run'.node # run.node => run = NoRun \/ ChatbotStepped \/ ToolsStepped

\* C21 as stated. The routing, and: a run only ends directly after a step
\* of the chatbot node.
C21_Claimed ==
    [][Routing /\ (~Ended /\ Ended' => ChatbotStepped)]_vars

\* C21. The run starts in the chatbot node; after a chatbot step that
\* produced a message control goes to the tools node exactly if the message
\* carries tool calls, and the graph ends otherwise; after a tools step
\* control is back at the chatbot node, so the tools node never runs twice in
\* a row. The graph reaches its end only directly after a chatbot step; a
\* run cut short by the recursion limit or by an error of the model call
\* ends where it stands, without routing.
C21_RoutingOrder ==
    [][/\ Routing
       /\ run'.node = "__end__" /\ run.node # "__end__" => ChatbotStepped
       /\ ~Ended /\ Ended' /\ run'.outcome # "completed" =>
                /\ run'.node = run.node
                /\ run'.messages = run.messages]_vars

\* a run that went through the tools node and then ended with an answer
C21_Witness ==
    /\ run.outcome = "completed"
    /\ \E i \in 1..Len(run.messages) : run.messages[i].type = "tool"

----------------------------------------------------------------------------
(* Properties of the build *)

\* the last call was an exploration, after the build, of a query that is no
\* node's name
ExploredUnnamed ==
    /\ pc = "serve"
    /\ last.op = "explore_graph_connections"
    /\ get_node_by_name(last.arg) = None

\* C22. After generate_data and the indexing of the three lists, a query
\* that equals no node name is resolved to a Location: only the Location
\* index is consulted, and the not-found diagnostic is not returned.
C22_AlwaysLocation ==
    ExploredUnnamed =>
        /\ ~last.trace.is_exact_match
        /\ last.trace.matched_via_semantic
        /\ last.trace.consulted = <<"Location">>
        /\ last.trace.found_node # None
        /\ last.trace.found_node.kind = "Location"
        /\ last.trace.found_node \in Range(nodes)
        /\ last.returned # NotFoundMsg(last.arg)

\* such an exploration has been served, on a graph that holds suppliers and
\* products too
C22_Witness ==
    /\ ExploredUnnamed
    /\ last.trace.found_node.kind = "Location"
    /\ supIdx # <<>> /\ prodIdx # <<>>

\* C23. The build always completes: whatever generate_data drew, none of
\* add_products, add_suppliers, add_locations raises, and the import of the
\* module is not ended by an exception.
C23_BuildCompletes ==
    /\ pc # "crashed"
    /\ last.op \in {"add_products", "add_suppliers", "add_locations"} => last.raised = "none"

\* the entities the searches of the three stores can return: every entry
\* comes back for a k as large as the store
Returnable ==
    Range(get_locations(<<>>, Len(locIdx)))
        \cup Range(get_suppliers(<<>>, Len(supIdx)))
        \cup Range(get_products(<<>>, Len(prodIdx)))

\* C24. Index/graph consistency after the build: once add_locations has
\* returned, every entity a search can return is a node of the graph, found by
\* get_node_by_name under its name, and every node of the graph can be
\* returned by a search of its kind's store.
C24_IndexGraphConsistency ==
    pc = "serve" =>
        /\ \A e \in Returnable : e \in Range(nodes) /\ get_node_by_name(e.name) # None
        /\ \A n \in Range(nodes) : n \in Returnable

\* a completed build with two locations, two suppliers and two products
C24_Witness ==
    /\ pc = "serve"
    /\ Len(locIdx) = 2 /\ Len(supIdx) = 2 /\ Len(prodIdx) = 2
    /\ Len(nodes) = 6

----------------------------------------------------------------------------
(* Properties of the chatbot node *)

\* the step is one of the chatbot node: a list was handed to the model
ChatbotCalled == run.outcome = "running" /\ run.node = "chatbot" /\ run'.sent # run.sent

\* C25. Tool-call reminder: in every chatbot step the list sent to the
\* language model is the conversation state, led by the system prompt and
\* ending with the reminder exactly if the state holds at least 12 messages
\* that carry tool calls; neither of the two is appended to the state, which
\* grows by one message, the model's reply, in a chatbot step.
C25_Reminder ==
    /\ [][ChatbotCalled =>
            /\ run'.sent # <<>>
            /\ run'.sent[Len(run'.sent)] = Reminder
                    <=> tool_call_count(run.messages) >= ReminderThreshold
            /\ run'.sent[1] = SystemPrompt
            /\ \E tail \in {<<>>, <<Reminder>>} :
                    run'.sent = <<SystemPrompt>> \o run.messages \o tail
            /\ run'.outcome # "llm_error" =>
                    /\ Len(run'.messages) = Len(run.messages) + 1
                    /\ SubSeq(run'.messages, 1, Len(run.messages)) = run.messages
                    /\ run'.messages[Len(run'.messages)].type = "ai"]_vars
    /\ [](\A i \in 1..Len(run.messages) : run.messages[i].type # "system")

\* a chatbot step has sent the reminder, the state holding exactly 12
\* messages with tool calls, and none of the list's two additions is in the
\* state
C25_Witness ==
    /\ run.sent # <<>>
    /\ run.sent[Len(run.sent)] = Reminder
    /\ tool_call_count(SubSeq(run.sent, 2, Len(run.sent) - 1)) = ReminderThreshold
    /\ run.outcome = "completed"

----------------------------------------------------------------------------
(* Properties of the retrieve_*_info tools *)

Looked ==
    last.op \in {"retrieve_product_info", "retrieve_supplier_info", "retrieve_location_info"}

\* the ranks of the hits of the last lookup whose name is the query, letter
\* case ignored
Matching == {i \in 1..Len(Searched) : Lower(Searched[i].name) = Lower(last.arg)}

FirstMatching == CHOOSE i \in Matching : \A j \in Matching : i <= j

\* what each tool returns when the search yields no hit
Sentinel(op, query) ==
    CASE op = "retrieve_product_info" -> <<>>
      [] op = "retrieve_supplier_info" -> <<NoSuppliersMsg(query)>>
      [] op = "retrieve_location_info" -> <<NoLocationsMsg(query)>>

\* C26 as stated. If one of the hits bears the query as its name, letter case
\* ignored, the tool returns the display string of the first such hit alone;
\* otherwise it returns the display strings of all hits in rank order.
C26_Claimed ==
    Looked =>
        last.returned = IF Matching # {} THEN <<Str(Searched[FirstMatching])>>
                        ELSE StrEach(Searched)

\* C26. Lookup short-circuit: if one of the (up to 5) hits bears the query as
\* its name, letter case ignored, the tool returns the display string of the
\* first such hit alone, the hits ranked above it discarded; if there are
\* hits and none bears it, the display strings of all hits in rank order; if
\* there is no hit, the supplier and the location tool return their
\* no-matches message and the product tool the empty list.
C26_ShortCircuit ==
    Looked =>
        last.returned = IF Matching # {} THEN <<Str(Searched[FirstMatching])>>
                        ELSE IF Searched # <<>> THEN StrEach(Searched)
                        ELSE Sentinel(last.op, last.arg)

\* a lookup whose second-ranked hit bears the query as its name
C26_Witness ==
    /\ Looked
    /\ Matching # {}
    /\ FirstMatching = 2

========================================================================
